---- MODULE Spec2Model ----
(***************************************************************************)
(* Model of qualifier.py: valid_input (a pure predicate over image size,   *)
(* tile size and ordering) and rearrange_tiles (open, validate, compute    *)
(* the tile boxes, crop/paste/close tile by tile, save).                   *)
(*                                                                         *)
(* An image is a record [size, mode, format, pix] where pix maps every     *)
(* pixel <<x, y>> to its value.  The image library (open, crop, new,       *)
(* paste, save, close) is modelled by what each call does to such records. *)
(***************************************************************************)
EXTENDS Integers, Sequences, FiniteSets

(* ------------------------------ bounds -------------------------------- *)
MaxW == 4
MaxH == 4
MaxTile == 2
MaxLen == 3

(* ------------------------------ inputs -------------------------------- *)
Modes == {"RGB"}
Formats == {"PNG"}

Pixels(size) == (0 .. size[1] - 1) \X (0 .. size[2] - 1)

\* The decoded file at image_path: every pixel carries a distinct non-zero
\* value, so that any misplaced pixel in the output is observable.
Picture(size, mode, format) ==
    [size |-> size, mode |-> mode, format |-> format,
     pix |-> [p \in Pixels(size) |-> p[2] * size[1] + p[1] + 1]]

\* Index values an ordering is drawn from: -1 (Python's "last element"),
\* the indices of small grids, and values past their end.
IdxValues == (0 - 1) .. MaxLen

BoundedOrderings == UNION {[1 .. n -> IdxValues] : n \in 0 .. MaxLen}

\* All orderings of four tiles that use every index once.
Perms4 ==
    {o \in [1 .. 4 -> 0 .. 3] : \A i, j \in 1 .. 4 : o[i] = o[j] => i = j}

\* Orderings for a four-tile grid that are not permutations.
NonPerms4 ==
    {<<0, 1, 2, 2>>, <<0, 1, 2, 4>>, <<0, 1, 2, 0 - 1>>, <<0, 1, 2, 3, 3>>,
     <<0, 1, 2, 3, 4>>, <<3, 2, 1, 0, 0>>}

Orderings == BoundedOrderings \cup Perms4 \cup NonPerms4

(* --------------------------- pure functions --------------------------- *)
\* Python's | on non-negative ints.
RECURSIVE BitOr(_, _)
BitOr(a, b) ==
    IF a = 0 THEN b
    ELSE IF b = 0 THEN a
    ELSE (IF a % 2 = 1 \/ b % 2 = 1 THEN 1 ELSE 0)
         + 2 * BitOr(a \div 2, b \div 2)

\* Python's ^ on non-negative ints.
RECURSIVE BitXor(_, _)
BitXor(a, b) ==
    IF a = 0 THEN b
    ELSE IF b = 0 THEN a
    ELSE (IF a % 2 # b % 2 THEN 1 ELSE 0) + 2 * BitXor(a \div 2, b \div 2)

\* Truth value of an int in an `if`.
Truthy(n) == n # 0

\* set(ordering)
SetOf(seq) == {seq[i] : i \in DOMAIN seq}

\* valid_input with `and` between the two remainders.
valid_input_and(image_size, tile_size, ord) ==
    LET image_width == image_size[1]
        image_height == image_size[2]
        width == tile_size[1]
        height == tile_size[2]
    IN  IF Truthy(image_width % width) /\ Truthy(image_height % height)
        THEN FALSE
        ELSE IF Truthy(BitXor(Cardinality(SetOf(ord)),
                              (image_width \div width)
                              * (image_height \div height)))
        THEN FALSE
        ELSE TRUE

\* valid_input with the grid's tile count computed as cols + rows.
valid_input_sum(image_size, tile_size, ord) ==
    LET image_width == image_size[1]
        image_height == image_size[2]
        width == tile_size[1]
        height == tile_size[2]
    IN  IF Truthy(BitOr(image_width % width, image_height % height))
        THEN FALSE
        ELSE IF Truthy(BitXor(Cardinality(SetOf(ord)),
                              (image_width \div width)
                              + (image_height \div height)))
        THEN FALSE
        ELSE TRUE

valid_input(image_size, tile_size, ord) ==
    LET image_width == image_size[1]
        image_height == image_size[2]
        width == tile_size[1]
        height == tile_size[2]
    IN  IF Truthy(BitOr(image_width % width, image_height % height))
        THEN FALSE
        ELSE IF Truthy(BitXor(Cardinality(SetOf(ord)),
                              (image_width \div width)
                              * (image_height \div height)))
        THEN FALSE
        ELSE TRUE

\* One tile box of the comprehension.
TileBox(x, y, width, height) ==
    <<x * width, y * height, (x + 1) * width, (y + 1) * height>>

\* The inner loop `for x in range(image_width // width)` for one y.
RECURSIVE TileRow(_, _, _, _, _)
TileRow(x, y, cols, width, height) ==
    IF x >= cols THEN <<>>
    ELSE <<TileBox(x, y, width, height)>>
         \o TileRow(x + 1, y, cols, width, height)

\* The outer loop `for y in range(image_height // height)`.
RECURSIVE TileRows(_, _, _, _, _)
TileRows(y, rows, cols, width, height) ==
    IF y >= rows THEN <<>>
    ELSE TileRow(0, y, cols, width, height)
         \o TileRows(y + 1, rows, cols, width, height)

\* The comprehension with its loops swapped: x outermost.
RECURSIVE TileColumn(_, _, _, _, _)
TileColumn(x, y, rows, width, height) ==
    IF y >= rows THEN <<>>
    ELSE <<TileBox(x, y, width, height)>>
         \o TileColumn(x, y + 1, rows, width, height)

RECURSIVE TileColumns(_, _, _, _, _)
TileColumns(x, rows, cols, width, height) ==
    IF x >= cols THEN <<>>
    ELSE TileColumn(x, 0, rows, width, height)
         \o TileColumns(x + 1, rows, cols, width, height)

TileListColumnMajor(image_size, tile_size) ==
    TileColumns(0, image_size[2] \div tile_size[2],
                image_size[1] \div tile_size[1], tile_size[1], tile_size[2])

\* tiles = [... for y in range(rows) for x in range(cols)]
TileList(image_size, tile_size) ==
    TileRows(0, image_size[2] \div tile_size[2],
             image_size[1] \div tile_size[1], tile_size[1], tile_size[2])

\* tiles[i] raises IndexError unless -len <= i < len.
IndexOk(seq, i) == 0 - Len(seq) <= i /\ i < Len(seq)

\* tiles[i] read one position too far.
PyIndexOffByOne(seq, i) == seq[((i + 1) % Len(seq)) + 1]

\* tiles[i] with Python's indexing: 0-based, negative i counts from the end.
PyIndex(seq, i) == IF i >= 0 THEN seq[i + 1] ELSE seq[Len(seq) + i + 1]

\* crop that forgets the top edge of the box.
CropIgnoresTop(img, box) ==
    LET size == <<box[3] - box[1], box[4] - box[2]>>
    IN  [size |-> size, mode |-> img.mode, box |-> box,
         pix |-> [p \in Pixels(size) |-> img.pix[<<box[1] + p[1], p[2]>>]]]

\* source_image.crop(box): a new image holding the pixels of box.
Crop(img, box) ==
    LET size == <<box[3] - box[1], box[4] - box[2]>>
    IN  [size |-> size, mode |-> img.mode, box |-> box,
         pix |-> [p \in Pixels(size) |-> img.pix[<<box[1] + p[1], box[2] + p[2]>>]]]

InBox(p, box) ==
    box[1] <= p[1] /\ p[1] < box[3] /\ box[2] <= p[2] /\ p[2] < box[4]

\* image_out.paste(image, box): the pixels of box are overwritten by image.
Paste(pix, image, box) ==
    [p \in DOMAIN pix |->
        IF InBox(p, box) THEN image.pix[<<p[1] - box[1], p[2] - box[2]>>]
        ELSE pix[p]]

\* Image.new(mode, size): every pixel 0.
NewImage(mode, size) ==
    [size |-> size, mode |-> mode, pix |-> [p \in Pixels(size) |-> 0]]

ErrorMessage == "The tile size or ordering are not valid for the given image"

(* ------------------------------- state -------------------------------- *)
VARIABLES
    source,       \* the decoded file at image_path
    tile_size,    \* argument
    ordering,     \* argument
    pc,           \* position in rearrange_tiles
    source_image, \* handle of the source image: "unopened", "open", "closed"
    valid,        \* result of valid_input: "pending", "True", "False"
    tiles,        \* the list of tile boxes
    k,            \* completed iterations of the paste loop
    image,        \* <<>> or <<the crop of the current iteration>>
    crops,        \* one record per crop() call: box, pasted, closed
    image_out,    \* <<>> or <<the canvas>>
    out_handle,   \* handle of the canvas: "none", "open", "closed"
    out_file,     \* <<>> or <<the file at out_path>>
    error,        \* <<>> or <<exception type, message>>
    run,          \* 1 for the first call, 2 for the call on its output
    original,     \* the source of the first call
    first_ordering \* the ordering of the first call

vars ==
    <<source, tile_size, ordering, pc, source_image, valid, tiles, k, image,
      crops, image_out, out_handle, out_file, error, run, original,
      first_ordering>>

\* State of a call that has not started.
Fresh ==
    /\ pc = "call"
    /\ source_image = "unopened"
    /\ valid = "pending"
    /\ tiles = <<>>
    /\ k = 0
    /\ image = <<>>
    /\ crops = <<>>
    /\ image_out = <<>>
    /\ out_handle = "none"
    /\ out_file = <<>>
    /\ error = <<>>

Init ==
    /\ \E w \in 1 .. MaxW, h \in 1 .. MaxH, m \in Modes, f \in Formats :
          source = Picture(<<w, h>>, m, f)
    /\ tile_size \in (1 .. MaxTile) \X (1 .. MaxTile)
    /\ ordering \in Orderings
    /\ Fresh
    /\ run = 1
    /\ original = source
    /\ first_ordering = ordering

Inputs == <<source, tile_size, ordering, run, original, first_ordering>>

(* ------------------------------ actions ------------------------------- *)
\* with Image.open(image_path) as source_image: the file decodes.
Open ==
    /\ pc = "call"
    /\ pc' = "validate"
    /\ source_image' = "open"
    /\ UNCHANGED <<Inputs, valid, tiles, k, image, crops, image_out,
                   out_handle, out_file, error>>

\* Image.open raises: the call ends before the with block is entered.
OpenFails ==
    /\ pc = "call"
    /\ pc' = "raised"
    /\ error' = <<"OSError", "cannot identify image file">>
    /\ UNCHANGED <<Inputs, source_image, valid, tiles, k, image, crops,
                   image_out, out_handle, out_file>>

\* The check made only after the canvas exists.
ValidateRejectsAfterCanvas ==
    /\ pc = "validate"
    /\ ~valid_input(source.size, tile_size, ordering)
    /\ valid' = "False"
    /\ error' = <<"ValueError", ErrorMessage>>
    /\ image_out' = <<NewImage(source.mode, source.size)>>
    /\ out_handle' = "closed"
    /\ source_image' = "closed"
    /\ pc' = "raised"
    /\ UNCHANGED <<Inputs, tiles, k, image, crops, out_file>>

\* if not valid_input(...): raise ValueError(...); the with block closes
\* the source on the way out.
ValidateRejects ==
    /\ pc = "validate"
    /\ ~valid_input(source.size, tile_size, ordering)
    /\ valid' = "False"
    /\ error' = <<"ValueError", ErrorMessage>>
    /\ source_image' = "closed"
    /\ pc' = "raised"
    /\ UNCHANGED <<Inputs, tiles, k, image, crops, image_out, out_handle,
                   out_file>>

\* valid_input returns True; tiles is computed and the generator `images`
\* is created (lazily: nothing is cropped yet).
ValidateAccepts ==
    /\ pc = "validate"
    /\ valid_input(source.size, tile_size, ordering)
    /\ valid' = "True"
    /\ tiles' = TileList(source.size, tile_size)
    /\ pc' = "new"
    /\ UNCHANGED <<Inputs, source_image, k, image, crops, image_out,
                   out_handle, out_file, error>>

\* with Image.new(source_image.mode, source_image.size) as image_out
NewCanvas ==
    /\ pc = "new"
    /\ image_out' = <<NewImage(source.mode, source.size)>>
    /\ out_handle' = "open"
    /\ pc' = "loop"
    /\ UNCHANGED <<Inputs, source_image, valid, tiles, k, image, crops,
                   out_file, error>>

\* zip asks `images` first: the generator is exhausted, the loop ends.
NextExhausted ==
    /\ pc = "loop"
    /\ k >= Len(ordering)
    /\ pc' = "save"
    /\ UNCHANGED <<Inputs, source_image, valid, tiles, k, image, crops,
                   image_out, out_handle, out_file, error>>

\* The generator evaluates tiles[i] and raises IndexError; both with
\* blocks close their images on the way out.
NextIndexError ==
    /\ pc = "loop"
    /\ k < Len(ordering)
    /\ ~IndexOk(tiles, ordering[k + 1])
    /\ error' = <<"IndexError", "list index out of range">>
    /\ out_handle' = "closed"
    /\ source_image' = "closed"
    /\ pc' = "raised"
    /\ UNCHANGED <<Inputs, valid, tiles, k, image, crops, image_out,
                   out_file>>

\* The generator yields source_image.crop(tiles[i]); zip then asks the
\* tiles iterator, which yields the box to paste at.
NextCrop ==
    /\ pc = "loop"
    /\ k < Len(ordering)
    /\ IndexOk(tiles, ordering[k + 1])
    /\ k < Len(tiles)
    /\ LET c == Crop(source, PyIndex(tiles, ordering[k + 1]))
       IN  /\ image' = <<c>>
           /\ crops' = Append(crops, [box |-> c.box, pasted |-> FALSE,
                                      closed |-> FALSE])
    /\ pc' = "paste"
    /\ UNCHANGED <<Inputs, source_image, valid, tiles, k, image_out,
                   out_handle, out_file, error>>

\* The generator yields a crop, but the tiles iterator is exhausted: zip
\* stops and drops the crop it already took.
NextCropDropped ==
    /\ pc = "loop"
    /\ k < Len(ordering)
    /\ IndexOk(tiles, ordering[k + 1])
    /\ k >= Len(tiles)
    /\ LET c == Crop(source, PyIndex(tiles, ordering[k + 1]))
       IN  crops' = Append(crops, [box |-> c.box, pasted |-> FALSE,
                                   closed |-> FALSE])
    /\ image' = <<>>
    /\ pc' = "save"
    /\ UNCHANGED <<Inputs, source_image, valid, tiles, k, image_out,
                   out_handle, out_file, error>>

\* image_out.paste(image, box)
PasteTile ==
    /\ pc = "paste"
    /\ image_out' =
          <<[image_out[1] EXCEPT
                !.pix = Paste(image_out[1].pix, image[1], tiles[k + 1])]>>
    /\ crops' = [crops EXCEPT ![Len(crops)].pasted = TRUE]
    /\ pc' = "close"
    /\ UNCHANGED <<Inputs, source_image, valid, tiles, k, image, out_handle,
                   out_file, error>>

\* The loop body without image.close().
CloseTileSkipsClose ==
    /\ pc = "close"
    /\ image' = <<>>
    /\ k' = k + 1
    /\ pc' = "loop"
    /\ UNCHANGED <<Inputs, source_image, valid, tiles, image_out, out_handle,
                   out_file, error, crops>>

\* image.close()
CloseTile ==
    /\ pc = "close"
    /\ crops' = [crops EXCEPT ![Len(crops)].closed = TRUE]
    /\ image' = <<>>
    /\ k' = k + 1
    /\ pc' = "loop"
    /\ UNCHANGED <<Inputs, source_image, valid, tiles, image_out, out_handle,
                   out_file, error>>

\* image_out.save(out_path, source_image.format) succeeds; both with
\* blocks close their images and the call returns.
Save ==
    /\ pc = "save"
    /\ out_file' = <<[size |-> image_out[1].size, mode |-> image_out[1].mode,
                      format |-> source.format, pix |-> image_out[1].pix]>>
    /\ out_handle' = "closed"
    /\ source_image' = "closed"
    /\ pc' = "returned"
    /\ UNCHANGED <<Inputs, valid, tiles, k, image, crops, image_out, error>>

\* save raises and nothing closes the images (no with blocks).
SaveFailsLeaks ==
    /\ pc = "save"
    /\ error' = <<"OSError", "cannot write file">>
    /\ pc' = "raised"
    /\ UNCHANGED <<Inputs, valid, tiles, k, image, crops, image_out,
                   out_file, out_handle, source_image>>

\* image_out.save raises (unwritable path): both with blocks close their
\* images on the way out.
SaveFails ==
    /\ pc = "save"
    /\ error' = <<"OSError", "cannot write file">>
    /\ out_handle' = "closed"
    /\ source_image' = "closed"
    /\ pc' = "raised"
    /\ UNCHANGED <<Inputs, valid, tiles, k, image, crops, image_out,
                   out_file>>

\* A permutation of 0..n-1.
IsPermutation(ord, n) ==
    /\ Len(ord) = n
    /\ \A i \in 1 .. n : ord[i] \in 0 .. n - 1
    /\ \A i, j \in 1 .. n : ord[i] = ord[j] => i = j

\* The permutations of 0..n-1 among the orderings.
Permutations(n) == {o \in Orderings : IsPermutation(o, n)}

\* The caller calls rearrange_tiles again, on the file the first call
\* wrote, with the same tile size and another permutation.
CallAgain ==
    /\ pc = "returned"
    /\ run = 1
    /\ IsPermutation(ordering, Len(tiles))
    /\ run' = 2
    /\ source' = out_file[1]
    /\ ordering' \in Permutations(Len(tiles))
    /\ pc' = "call"
    /\ source_image' = "unopened"
    /\ valid' = "pending"
    /\ tiles' = <<>>
    /\ k' = 0
    /\ image' = <<>>
    /\ crops' = <<>>
    /\ image_out' = <<>>
    /\ out_handle' = "none"
    /\ out_file' = <<>>
    /\ error' = <<>>
    /\ UNCHANGED <<tile_size, original, first_ordering>>

Next ==
    \/ Open
    \/ OpenFails
    \/ ValidateRejects
    \/ ValidateAccepts
    \/ NewCanvas
    \/ NextExhausted
    \/ NextIndexError
    \/ NextCrop
    \/ NextCropDropped
    \/ PasteTile
    \/ CloseTile
    \/ Save
    \/ SaveFails
    \/ CallAgain

Spec == Init /\ [][Next]_vars

(* ------------------------------ claims -------------------------------- *)
W == source.size[1]
H == source.size[2]
TileW == tile_size[1]
TileH == tile_size[2]
Cols == W \div TileW
Rows == H \div TileH
Expected == Cols * Rows
Divides == W % TileW = 0 /\ H % TileH = 0
Ended == pc \in {"returned", "raised"}

\* Box number n (0-based) of the row-major enumeration, x fastest.
RowMajorBox(n) ==
    <<(n % Cols) * TileW, (n \div Cols) * TileH,
      ((n % Cols) + 1) * TileW, ((n \div Cols) + 1) * TileH>>

\* The pixels of box b of picture p, relative to the box's corner.
Content(p, b) ==
    [d \in (0 .. TileW - 1) \X (0 .. TileH - 1) |-> p[<<b[1] + d[1], b[2] + d[2]>>]]

\* C1: valid_input returns False whenever ordering is not a permutation of
\* 0..N-1 (duplicate, missing or out-of-range index, or wrong length).
C1_RejectsNonPermutations ==
    (valid # "pending" /\ ~IsPermutation(ordering, Expected))
        => valid = "False"

\* C2: valid_input returns False whenever the tile size does not divide the
\* image size, whatever the ordering.
C2_RejectsIndivisible ==
    (valid # "pending" /\ ~Divides) => valid = "False"

\* A call rejected for its tile size although its ordering is a permutation
\* of the tiles that fit (W \div w) * (H \div h).
C2_Witness ==
    /\ valid = "False"
    /\ ~Divides
    /\ Expected >= 2
    /\ IsPermutation(ordering, Expected)

\* C3: in the saved output of a valid call, box i holds the source's
\* content of box ordering[i], boxes numbered row-major.
C3_OutputTiles ==
    (pc = "returned" /\ IsPermutation(ordering, Expected))
        => /\ out_file # <<>>
           /\ out_file[1].size = source.size
           /\ \A i \in 0 .. Expected - 1 :
                 Content(out_file[1].pix, RowMajorBox(i))
                    = Content(source.pix, RowMajorBox(ordering[i + 1]))

\* The 4x4 image with 2x2 tiles and ordering [2,3,0,1]: the top row of
\* tiles and the bottom row have changed places.
C3_Witness ==
    /\ pc = "returned"
    /\ run = 1
    /\ source.size = <<4, 4>>
    /\ tile_size = <<2, 2>>
    /\ ordering = <<2, 3, 0, 1>>
    /\ \A x \in 0 .. 3, y \in 0 .. 1 :
          /\ out_file[1].pix[<<x, y>>] = source.pix[<<x, y + 2>>]
          /\ out_file[1].pix[<<x, y + 2>>] = source.pix[<<x, y>>]

\* C4: when validation fails the call ends with the fixed message, and no
\* canvas was created, nothing was cropped or pasted, no file written.
C4_RejectionIsClean ==
    (valid = "False")
        => /\ pc = "raised"
           /\ error # <<>>
           /\ error[2]
                = "The tile size or ordering are not valid for the given image"
           /\ image_out = <<>>
           /\ out_handle = "none"
           /\ crops = <<>>
           /\ out_file = <<>>

\* The 4x4 image with 2x2 tiles and ordering [0,1,2,2] is rejected.
C4_Witness ==
    /\ valid = "False"
    /\ pc = "raised"
    /\ source.size = <<4, 4>>
    /\ tile_size = <<2, 2>>
    /\ ordering = <<0, 1, 2, 2>>

\* ordering is the inverse permutation of first_ordering.
IsInverse ==
    /\ Len(ordering) = Len(first_ordering)
    /\ \A i \in 1 .. Len(first_ordering) :
          ordering[first_ordering[i] + 1] = i - 1

\* C5: rearranging by P and then rearranging the result by the inverse of
\* P gives back the original image.
C5_RoundTrip ==
    (run = 2 /\ pc = "returned" /\ IsInverse)
        => /\ out_file[1].size = original.size
           /\ out_file[1].pix = original.pix

\* A round trip through a permutation that is not its own inverse, on a
\* grid with two rows and two columns.
C5_Witness ==
    /\ run = 2
    /\ pc = "returned"
    /\ IsInverse
    /\ ordering # first_ordering
    /\ Cols = 2
    /\ Rows = 2
    /\ source.pix # original.pix
    /\ out_file[1].pix = original.pix

\* C6: valid_input returns True whenever the tile size divides the image
\* size and ordering uses each tile index exactly once.
C6_AcceptsPermutations ==
    (valid # "pending" /\ Divides /\ IsPermutation(ordering, Expected))
        => valid = "True"

\* An accepted permutation of a 2x2 grid that is not the identity.
C6_Witness ==
    /\ valid = "True"
    /\ Divides
    /\ Cols = 2
    /\ Rows = 2
    /\ IsPermutation(ordering, 4)
    /\ ordering # <<0, 1, 2, 3>>

\* C7: when the call has ended, the source image, if it was opened, is
\* closed, and the canvas, if it was created, is closed.
C7_HandlesReleased ==
    Ended
        => /\ source_image # "open"
           /\ out_handle # "open"
           /\ (valid # "pending" => source_image = "closed")
           /\ (image_out # <<>> => out_handle = "closed")

\* A call that ended by an error of save, after tiles were pasted.
C7_Witness ==
    /\ pc = "raised"
    /\ error[1] = "OSError"
    /\ k >= 2
    /\ source_image = "closed"
    /\ out_handle = "closed"

\* The crops that were created and not closed.
Live == {n \in DOMAIN crops : ~crops[n].closed}

\* C8: at most one crop is live at any time, and a crop is created only
\* after every earlier crop was pasted and closed.
C8_OneLiveCrop ==
    /\ Cardinality(Live) <= 1
    /\ \A n \in DOMAIN crops :
          n < Len(crops) => crops[n].pasted /\ crops[n].closed

\* The third crop is live, waiting to be pasted.
C8_Witness ==
    /\ pc = "paste"
    /\ Len(crops) = 3
    /\ Live = {3}

\* C9: tiles has Cols * Rows entries, entry r * Cols + c is the box of
\* column c and row r, and the boxes partition the image's pixels.
C9_TilesPartition ==
    (valid = "True" /\ Divides)
        => /\ Len(tiles) = Cols * Rows
           /\ \A r \in 0 .. Rows - 1, c \in 0 .. Cols - 1 :
                 tiles[r * Cols + c + 1]
                    = <<c * TileW, r * TileH, (c + 1) * TileW, (r + 1) * TileH>>
           /\ \A p \in Pixels(source.size) :
                 Cardinality({n \in DOMAIN tiles : InBox(p, tiles[n])}) = 1
           /\ \A n \in DOMAIN tiles :
                 /\ 0 <= tiles[n][1] /\ tiles[n][1] < tiles[n][3]
                 /\ tiles[n][3] <= W
                 /\ 0 <= tiles[n][2] /\ tiles[n][2] < tiles[n][4]
                 /\ tiles[n][4] <= H

\* The tiles of a grid with two columns and two rows of 2x2 tiles.
C9_Witness ==
    /\ valid = "True"
    /\ Cols = 2
    /\ Rows = 2
    /\ tile_size = <<2, 2>>
    /\ tiles = <<<<0, 0, 2, 2>>, <<2, 0, 4, 2>>, <<0, 2, 2, 4>>, <<2, 2, 4, 4>>>>

\* C10: when a call accepted by valid_input returns, every crop it
\* created was pasted and closed.
C10_EveryCropPastedAndClosed ==
    (pc = "returned" /\ valid = "True")
        => \A n \in DOMAIN crops : crops[n].pasted /\ crops[n].closed

====
